---- MODULE Spec2Model ----
(***************************************************************************)
(* Verification model of compress-json-rs: the radix-62 key codec          *)
(* (number.rs), the value encoder/decoder (encode.rs), the deduplicating   *)
(* Store (memory.rs), the recursive tree walker (memory.rs, core.rs) and   *)
(* the null-trimming helpers (helpers.rs).                                 *)
(*                                                                         *)
(* Text is modelled as a sequence of one-character strings, so that        *)
(* starts_with, strip_prefix, split and join are computed character by     *)
(* character exactly as the code computes them.                            *)
(***************************************************************************)
EXTENDS Integers, Sequences, FiniteSets, TLC

VARIABLES
  cfg,      \* the build: the CONFIG constant and the overflow-checks profile
  pc,       \* position of the scenario that is running
  arg,      \* the argument of the last operation
  mem,      \* the Store (Memory): store, value_cache, schema_cache, key_count
  pre,      \* the Store as it was before the last add_value call
  ret,      \* result of the last operation (a key, an index, a text, ...)
  ret0,     \* result of the operation before the last one
  out,      \* the decoded value of the last decompress / decode
  calls     \* number of add_value calls made on the Store

vars == <<cfg, pc, arg, mem, pre, ret, ret0, out, calls>>

(***************************************************************************)
(* Bounds of the model                                                     *)
(***************************************************************************)
WordBits == 16        \* width of usize in the modelled build (a 16-bit target)
MaxStrLen == 4        \* longest text drawn for the string codec
MaxN == 3             \* longest array of same-schema objects
MaxCalls == 2         \* add_value calls that build up one Store

WordMod == 2 ^ WordBits
MaxWord == WordMod - 1

(***************************************************************************)
(* Text helpers                                                            *)
(***************************************************************************)
StartsWith(s, p) ==
  /\ Len(s) >= Len(p)
  /\ \A i \in 1..Len(p) : s[i] = p[i]

StripPrefix(s, p) == SubSeq(s, Len(p) + 1, Len(s))

Contains(s, c) == \E i \in 1..Len(s) : s[i] = c

RECURSIVE Reverse(_)
Reverse(s) == IF Len(s) = 0 THEN <<>> ELSE Append(Reverse(Tail(s)), Head(s))

RECURSIVE SplitAcc(_, _, _, _)
SplitAcc(s, sep, i, cur) ==
  IF i > Len(s) THEN <<cur>>
  ELSE IF s[i] = sep THEN <<cur>> \o SplitAcc(s, sep, i + 1, <<>>)
  ELSE SplitAcc(s, sep, i + 1, Append(cur, s[i]))

\* str::split(sep): always at least one part; "a|" splits into "a" and "".
Split(s, sep) == SplitAcc(s, sep, 1, <<>>)

RECURSIVE Join(_, _)
Join(parts, sep) ==
  IF Len(parts) = 0 THEN <<>>
  ELSE IF Len(parts) = 1 THEN parts[1]
  ELSE parts[1] \o sep \o Join(Tail(parts), sep)

(***************************************************************************)
(* number.rs: the radix-62 key codec                                       *)
(***************************************************************************)
ITO_S ==
  << "0","1","2","3","4","5","6","7","8","9",
     "A","B","C","D","E","F","G","H","I","J","K","L","M",
     "N","O","P","Q","R","S","T","U","V","W","X","Y","Z",
     "a","b","c","d","e","f","g","h","i","j","k","l","m",
     "n","o","p","q","r","s","t","u","v","w","x","y","z" >>

N == Len(ITO_S)

\* str::find: the 0-based position of c in ITO_S, or -1 (None)
Find(c) ==
  IF \E i \in 1..N : ITO_S[i] = c
  THEN (CHOOSE i \in 1..N : ITO_S[i] = c) - 1
  ELSE -1

\* usize arithmetic: with overflow checks the operation panics, without
\* them it wraps.
WMul(checks, a, b) ==
  IF a * b > MaxWord
  THEN [ok |-> ~checks, v |-> (a * b) % WordMod]
  ELSE [ok |-> TRUE, v |-> a * b]

WAdd(checks, a, b) ==
  IF a + b > MaxWord
  THEN [ok |-> ~checks, v |-> (a + b) % WordMod]
  ELSE [ok |-> TRUE, v |-> a + b]

\* the loop of s_to_int over the characters of s, last character first;
\* i is the position still to be read, acc and pow the loop variables.
RECURSIVE SToIntLoop(_, _, _, _, _)
SToIntLoop(checks, s, i, acc, pow) ==
  IF i = 0 THEN [ok |-> TRUE, v |-> acc]
  ELSE
    LET idx == Find(s[i]) IN
    IF idx < 0 THEN [ok |-> FALSE, v |-> 0]
    ELSE
      LET prod == WMul(checks, idx, pow) IN
      IF ~prod.ok THEN [ok |-> FALSE, v |-> 0]
      ELSE
        LET sum == WAdd(checks, acc, prod.v) IN
        IF ~sum.ok THEN [ok |-> FALSE, v |-> 0]
        ELSE
          LET np == WMul(checks, pow, N) IN
          IF ~np.ok THEN [ok |-> FALSE, v |-> 0]
          ELSE SToIntLoop(checks, s, i - 1, sum.v, np.v)

\* s_to_int: [ok |-> FALSE] is a panic
s_to_int(checks, s) == SToIntLoop(checks, s, Len(s), 0, 1)

RECURSIVE IntToSLoop(_, _)
IntToSLoop(val, acc) ==
  IF val = 0 THEN acc
  ELSE IntToSLoop(val \div N, Append(acc, ITO_S[(val % N) + 1]))

\* int_to_s without the final reversal (least significant digit first)
int_to_s_unreversed(value) ==
  IF value = 0 THEN <<ITO_S[1]>>
  ELSE IntToSLoop(value, <<>>)

int_to_s(value) ==
  IF value = 0 THEN <<ITO_S[1]>>
  ELSE Reverse(IntToSLoop(value, <<>>))

(***************************************************************************)
(* serde_json::Value.  A tree value is a record tagged by t.               *)
(*   null | bool b | num n | str s | arr a | obj m                         *)
(* A Map is the sequence of its <<name, value>> entries in iteration       *)
(* order, names pairwise distinct.  A Number n is                          *)
(*   [k, sp, neg, mag, frac]: k = "i" an integer (PosInt / NegInt),        *)
(*   k = "f" a float; mag and frac are the decimal digits of the shortest  *)
(*   decimal text that identifies the value (no leading zeros in mag, no   *)
(*   trailing zeros in frac); sp = "nan" / "inf" only for an f64 that the  *)
(*   conversion at memory.rs:261 yields.                                   *)
(***************************************************************************)
Null == [t |-> "null"]
Bool(b) == [t |-> "bool", b |-> b]
NumV(n) == [t |-> "num", n |-> n]
Str(s) == [t |-> "str", s |-> s]
Arr(a) == [t |-> "arr", a |-> a]
Obj(m) == [t |-> "obj", m |-> m]
\* a panic (an unwinding that returns no value) and its cause
Panic(why) == [t |-> "panic", why |-> why]

IntN(neg, mag) == [k |-> "i", sp |-> "fin", neg |-> neg, mag |-> mag, frac |-> <<>>]
FloatN(neg, mag, frac) == [k |-> "f", sp |-> "fin", neg |-> neg, mag |-> mag, frac |-> frac]
NaN == [k |-> "f", sp |-> "nan", neg |-> FALSE, mag |-> <<>>, frac |-> <<>>]
Inf(neg) == [k |-> "f", sp |-> "inf", neg |-> neg, mag |-> <<>>, frac |-> <<>>]

Digits == {"0","1","2","3","4","5","6","7","8","9"}
IsDigits(s) == Len(s) > 0 /\ \A i \in 1..Len(s) : s[i] \in Digits

RECURSIVE StripLeadingZeros(_)
StripLeadingZeros(d) ==
  IF Len(d) > 1 /\ d[1] = "0" THEN StripLeadingZeros(Tail(d)) ELSE d

RECURSIVE StripTrailingZeros(_)
StripTrailingZeros(d) ==
  IF Len(d) > 0 /\ d[Len(d)] = "0"
  THEN StripTrailingZeros(SubSeq(d, 1, Len(d) - 1)) ELSE d

DigitVal(c) == Find(c)

\* a <= b for two digit texts without leading zeros
RECURSIVE DigitsLeq(_, _)
DigitsLeq(a, b) ==
  IF Len(a) # Len(b) THEN Len(a) < Len(b)
  ELSE IF Len(a) = 0 THEN TRUE
  ELSE IF a[1] # b[1] THEN DigitVal(a[1]) < DigitVal(b[1])
  ELSE DigitsLeq(Tail(a), Tail(b))

I64_MAX == <<"9","2","2","3","3","7","2","0","3","6","8","5","4","7","7","5","8","0","7">>
I64_MIN_MAG == <<"9","2","2","3","3","7","2","0","3","6","8","5","4","7","7","5","8","0","8">>
U64_MAX == <<"1","8","4","4","6","7","4","4","0","7","3","7","0","9","5","5","1","6","1","5">>

(***************************************************************************)
(* encode.rs                                                               *)
(***************************************************************************)
\* <f64 as Display>: no exponent, "-0" for negative zero, no ".0" for a
\* whole value
DisplayF64(f) ==
  IF f.sp = "nan" THEN <<"N","a","N">>
  ELSE IF f.sp = "inf"
    THEN (IF f.neg THEN <<"-">> ELSE <<>>) \o <<"i","n","f">>
  ELSE (IF f.neg THEN <<"-">> ELSE <<>>) \o f.mag
         \o (IF Len(f.frac) > 0 THEN <<".">> \o f.frac ELSE <<>>)

encode_num(num) == <<"n","|">> \o DisplayF64(num)

is_special_value(s) == StartsWith(s, <<"N","|">>)

\* decode_special that takes every text for NaN
decode_special_lenient(s) == [ok |-> TRUE, f |-> NaN]

decode_special(s) ==
  IF s = <<"N","|","+">> THEN [ok |-> TRUE, f |-> Inf(FALSE)]
  ELSE IF s = <<"N","|","-">> THEN [ok |-> TRUE, f |-> Inf(TRUE)]
  ELSE IF s = <<"N","|","0">> THEN [ok |-> TRUE, f |-> NaN]
  ELSE [ok |-> FALSE, f |-> NaN]

\* str::parse::<f64> of a plain decimal text [sign] digits [. digits]; the
\* texts "NaN", "inf" and "infinity" parse to the special values; any other
\* text is an error.  The digits are kept as they are: exact for the
\* shortest text of an f64, which is what encode_num writes.
ParseF64(s) ==
  LET signed == Len(s) > 0 /\ s[1] \in {"+", "-"}
      neg == Len(s) > 0 /\ s[1] = "-"
      body == IF signed THEN Tail(s) ELSE s
      parts == Split(body, ".")
  IN
  IF body = <<"N","a","N">> /\ ~signed THEN [ok |-> TRUE, f |-> NaN]
  ELSE IF body \in {<<"i","n","f">>, <<"i","n","f","i","n","i","t","y">>}
    THEN [ok |-> TRUE, f |-> Inf(neg)]
  ELSE IF Len(parts) = 1 /\ IsDigits(parts[1])
    THEN [ok |-> TRUE, f |-> FloatN(neg, StripLeadingZeros(parts[1]), <<>>)]
  ELSE IF Len(parts) = 2 /\ (Len(parts[1]) + Len(parts[2]) > 0)
          /\ (Len(parts[1]) = 0 \/ IsDigits(parts[1]))
          /\ (Len(parts[2]) = 0 \/ IsDigits(parts[2]))
    THEN [ok |-> TRUE,
          f |-> FloatN(neg,
                       IF Len(parts[1]) = 0 THEN <<"0">>
                       ELSE StripLeadingZeros(parts[1]),
                       StripTrailingZeros(parts[2]))]
  ELSE [ok |-> FALSE, f |-> NaN]

decode_num(s) ==
  LET s2 == IF StartsWith(s, <<"n","|">>) THEN StripPrefix(s, <<"n","|">>) ELSE s
  IN ParseF64(s2)

\* str::parse::<i64>: [+|-] digits, within the range of i64
ParseI64(s) ==
  LET signed == Len(s) > 0 /\ s[1] \in {"+", "-"}
      neg == Len(s) > 0 /\ s[1] = "-"
      body == IF signed THEN Tail(s) ELSE s
      mag == StripLeadingZeros(body)
  IN
  IF ~IsDigits(body) THEN [ok |-> FALSE, neg |-> FALSE, mag |-> <<>>]
  ELSE IF neg /\ ~DigitsLeq(mag, I64_MIN_MAG) THEN [ok |-> FALSE, neg |-> FALSE, mag |-> <<>>]
  ELSE IF ~neg /\ ~DigitsLeq(mag, I64_MAX) THEN [ok |-> FALSE, neg |-> FALSE, mag |-> <<>>]
  ELSE [ok |-> TRUE, neg |-> (neg /\ mag # <<"0">>), mag |-> mag]

\* str::parse::<u64>: [+] digits, within the range of u64
ParseU64(s) ==
  LET signed == Len(s) > 0 /\ s[1] = "+"
      body == IF signed THEN Tail(s) ELSE s
      mag == StripLeadingZeros(body)
  IN
  IF ~IsDigits(body) \/ ~DigitsLeq(mag, U64_MAX)
  THEN [ok |-> FALSE, neg |-> FALSE, mag |-> <<>>]
  ELSE [ok |-> TRUE, neg |-> FALSE, mag |-> mag]

decode_key(checks, key) == s_to_int(checks, key)

encode_bool(b) == IF b THEN <<"b","|","T">> ELSE <<"b","|","F">>

\* decode_bool that takes only "b|T" for true
decode_bool_strict(s) == s = <<"b","|","T">>

decode_bool(s) ==
  IF s = <<"b","|","T">> THEN TRUE
  ELSE IF s = <<"b","|","F">> THEN FALSE
  ELSE Len(s) # 0

\* encode_str as it was before the special-value tag "N|" was reserved
encode_str_without_special(s) ==
  IF \/ StartsWith(s, <<"b","|">>)
     \/ StartsWith(s, <<"o","|">>)
     \/ StartsWith(s, <<"n","|">>)
     \/ StartsWith(s, <<"a","|">>)
     \/ StartsWith(s, <<"s","|">>)
  THEN <<"s","|">> \o s
  ELSE s

\* encode_str that does not escape the escape tag itself
encode_str_unescaped_s(s) ==
  IF \/ StartsWith(s, <<"b","|">>)
     \/ StartsWith(s, <<"o","|">>)
     \/ StartsWith(s, <<"n","|">>)
     \/ StartsWith(s, <<"N","|">>)
     \/ StartsWith(s, <<"a","|">>)
  THEN <<"s","|">> \o s
  ELSE s

encode_str(s) ==
  IF \/ StartsWith(s, <<"b","|">>)
     \/ StartsWith(s, <<"o","|">>)
     \/ StartsWith(s, <<"n","|">>)
     \/ StartsWith(s, <<"N","|">>)
     \/ StartsWith(s, <<"a","|">>)
     \/ StartsWith(s, <<"s","|">>)
  THEN <<"s","|">> \o s
  ELSE s

decode_str(s) ==
  IF StartsWith(s, <<"s","|">>) THEN StripPrefix(s, <<"s","|">>) ELSE s

(***************************************************************************)
(* config.rs: the CONFIG constant of the build.  overflow_checks is the    *)
(* build profile (on in debug and test builds, off in release builds).     *)
(***************************************************************************)
Config == [sort_key : BOOLEAN, preserve_nan : BOOLEAN, error_on_nan : BOOLEAN,
           preserve_infinite : BOOLEAN, error_on_infinite : BOOLEAN,
           overflow_checks : BOOLEAN]

CONFIG == [sort_key |-> FALSE, preserve_nan |-> FALSE, error_on_nan |-> FALSE,
           preserve_infinite |-> FALSE, error_on_infinite |-> FALSE,
           overflow_checks |-> TRUE]

(***************************************************************************)
(* memory.rs: the Store                                                    *)
(***************************************************************************)
EmptyCache == [x \in {} |-> <<>>]

make_memory ==
  [store |-> <<>>, value_cache |-> EmptyCache, schema_cache |-> EmptyCache,
   key_count |-> 0]

mem_to_values(m) == m.store

\* get_value_key that never consults the value cache
get_value_key_uncached(m, value) ==
  LET id == m.key_count
      key == int_to_s(id)
  IN [mem |-> [store |-> Append(m.store, value),
               value_cache |-> (value :> key) @@ m.value_cache,
               schema_cache |-> m.schema_cache,
               key_count |-> m.key_count + 1],
      key |-> key, ok |-> TRUE]

\* get_value_key that leaves the counter as it is
get_value_key_stale_count(m, value) ==
  IF value \in DOMAIN m.value_cache
  THEN [mem |-> m, key |-> m.value_cache[value], ok |-> TRUE]
  ELSE
    LET key == int_to_s(m.key_count)
    IN [mem |-> [store |-> Append(m.store, value),
                 value_cache |-> (value :> key) @@ m.value_cache,
                 schema_cache |-> m.schema_cache,
                 key_count |-> m.key_count],
        key |-> key, ok |-> TRUE]

\* get_value_key that puts the new entry in front of the list
get_value_key_push_front(m, value) ==
  IF value \in DOMAIN m.value_cache
  THEN [mem |-> m, key |-> m.value_cache[value], ok |-> TRUE]
  ELSE
    LET key == int_to_s(m.key_count)
    IN [mem |-> [store |-> <<value>> \o m.store,
                 value_cache |-> (value :> key) @@ m.value_cache,
                 schema_cache |-> m.schema_cache,
                 key_count |-> m.key_count + 1],
        key |-> key, ok |-> TRUE]

\* get_value_key that returns the key of the index after the new entry
get_value_key_next_index(m, value) ==
  IF value \in DOMAIN m.value_cache
  THEN [mem |-> m, key |-> m.value_cache[value], ok |-> TRUE]
  ELSE
    LET key == int_to_s(m.key_count + 1)
    IN [mem |-> [store |-> Append(m.store, value),
                 value_cache |-> (value :> key) @@ m.value_cache,
                 schema_cache |-> m.schema_cache,
                 key_count |-> m.key_count + 1],
        key |-> key, ok |-> TRUE]

\* get_value_key that takes the id from the length of the list after the
\* push
get_value_key_len_after_push(m, value) ==
  IF value \in DOMAIN m.value_cache
  THEN [mem |-> m, key |-> m.value_cache[value], ok |-> TRUE]
  ELSE
    LET store == Append(m.store, value)
        key == int_to_s(Len(store))
    IN [mem |-> [store |-> store,
                 value_cache |-> (value :> key) @@ m.value_cache,
                 schema_cache |-> m.schema_cache,
                 key_count |-> m.key_count + 1],
        key |-> key, ok |-> TRUE]

\* get_value_key: [mem, key, ok]; it never panics
get_value_key(m, value) ==
  IF value \in DOMAIN m.value_cache
  THEN [mem |-> m, key |-> m.value_cache[value], ok |-> TRUE]
  ELSE
    LET id == m.key_count
        key == int_to_s(id)
    IN [mem |-> [store |-> Append(m.store, value),
                 value_cache |-> (value :> key) @@ m.value_cache,
                 schema_cache |-> m.schema_cache,
                 key_count |-> m.key_count + 1],
        key |-> key, ok |-> TRUE]

\* byte order of the characters of the model's alphabet (UTF-8 / ASCII)
ByteOrder ==
  << "+", ",", "-", ".",
     "0","1","2","3","4","5","6","7","8","9",
     "A","B","C","D","E","F","G","H","I","J","K","L","M",
     "N","O","P","Q","R","S","T","U","V","W","X","Y","Z",
     "_",
     "a","b","c","d","e","f","g","h","i","j","k","l","m",
     "n","o","p","q","r","s","t","u","v","w","x","y","z",
     "|" >>

Byte(c) == CHOOSE i \in 1..Len(ByteOrder) : ByteOrder[i] = c

\* <String as Ord>: a < b
RECURSIVE StrLt(_, _)
StrLt(a, b) ==
  IF Len(b) = 0 THEN FALSE
  ELSE IF Len(a) = 0 THEN TRUE
  ELSE IF a[1] # b[1] THEN Byte(a[1]) < Byte(b[1])
  ELSE StrLt(Tail(a), Tail(b))

RECURSIVE SortInsert(_, _)
SortInsert(sorted, x) ==
  IF Len(sorted) = 0 THEN <<x>>
  ELSE IF StrLt(x, sorted[1]) THEN <<x>> \o sorted
  ELSE <<sorted[1]>> \o SortInsert(Tail(sorted), x)

\* slice::sort (stable)
RECURSIVE Sort(_)
Sort(keys) ==
  IF Len(keys) = 0 THEN <<>>
  ELSE SortInsert(Sort(SubSeq(keys, 1, Len(keys) - 1)), keys[Len(keys)])

\* Arithmetic on naturals written as decimal digit texts (most significant
\* digit first, no leading zeros), for the 64-bit integers and the 53-bit
\* significand of f64.
DigitChar(n) == ITO_S[n + 1]

BigLt(a, b) == ~DigitsLeq(b, a)

Front(d) == IF Len(d) = 0 THEN d ELSE SubSeq(d, 1, Len(d) - 1)

LastDigit(d) == IF Len(d) = 0 THEN 0 ELSE DigitVal(d[Len(d)])

RECURSIVE BigAddLoop(_, _, _)
BigAddLoop(a, b, carry) ==
  IF Len(a) = 0 /\ Len(b) = 0 THEN (IF carry = 1 THEN <<"1">> ELSE <<>>)
  ELSE LET t == LastDigit(a) + LastDigit(b) + carry
       IN Append(BigAddLoop(Front(a), Front(b), t \div 10), DigitChar(t % 10))

BigAdd(a, b) == BigAddLoop(a, b, 0)

\* a - b for a >= b
RECURSIVE BigSubLoop(_, _, _)
BigSubLoop(a, b, borrow) ==
  IF Len(a) = 0 THEN <<>>
  ELSE LET t == LastDigit(a) - LastDigit(b) - borrow
       IN Append(BigSubLoop(Front(a), Front(b), IF t < 0 THEN 1 ELSE 0),
                 DigitChar((t + 10) % 10))

BigSub(a, b) == StripLeadingZeros(BigSubLoop(a, b, 0))

\* d \div 2 and d % 2, by long division
RECURSIVE BigHalfLoop(_, _, _, _)
BigHalfLoop(d, i, rem, acc) ==
  IF i > Len(d) THEN [q |-> StripLeadingZeros(acc), r |-> rem]
  ELSE LET cur == rem * 10 + DigitVal(d[i])
       IN BigHalfLoop(d, i + 1, cur % 2, Append(acc, DigitChar(cur \div 2)))

BigHalf(d) == BigHalfLoop(d, 1, 0, <<>>)

\* d * 2^k
RECURSIVE BigShl(_, _)
BigShl(d, k) == IF k = 0 THEN d ELSE BigShl(BigAdd(d, d), k - 1)

RECURSIVE Zeros(_)
Zeros(j) == IF j = 0 THEN <<>> ELSE <<"0">> \o Zeros(j - 1)

TWO52 == <<"4","5","0","3","5","9","9","6","2","7","3","7","0","4","9","6">>
TWO53 == <<"9","0","0","7","1","9","9","2","5","4","7","4","0","9","9","2">>

\* the cast `as f64` of an integer magnitude: the significand is what is
\* left after halving below 2^53; rnd is the last bit shifted out, sticky
\* whether any bit before it was set
RECURSIVE F64RoundLoop(_, _, _, _)
F64RoundLoop(q, rnd, sticky, k) ==
  IF BigLt(q, TWO53) THEN [q |-> q, rnd |-> rnd, sticky |-> sticky, k |-> k]
  ELSE LET h == BigHalf(q)
       IN F64RoundLoop(h.q, h.r, sticky \/ rnd = 1, k + 1)

\* round to nearest, ties to even: the f64 is m * 2^k with m < 2^53
IntAsF64(mag) ==
  LET s == F64RoundLoop(mag, 0, FALSE, 0)
      up == s.rnd = 1 /\ (s.sticky \/ BigHalf(s.q).r = 1)
      m == IF up THEN BigAdd(s.q, <<"1">>) ELSE s.q
  IN IF m = TWO53 THEN [m |-> TWO52, k |-> s.k + 1] ELSE [m |-> m, k |-> s.k]

\* the shortest decimal digits that read back as the f64 m * 2^k (k >= 1):
\* the multiple of the largest power of ten that lies within half a gap of
\* the value, the nearest one if there are two (a tie goes up); the bounds
\* count when the significand is even.
RECURSIVE F64ShortestLoop(_, _, _, _, _, _)
F64ShortestLoop(v, lo, lo_incl, hi, hi_incl, j) ==
  LET cl == SubSeq(v, 1, Len(v) - j) \o Zeros(j)
      ch == BigAdd(cl, <<"1">> \o Zeros(j))
      Inside(c) ==
        /\ (IF lo_incl THEN DigitsLeq(lo, c) ELSE BigLt(lo, c))
        /\ (IF hi_incl THEN DigitsLeq(c, hi) ELSE BigLt(c, hi))
  IN IF j = 0 THEN v
     ELSE IF Inside(cl) /\ Inside(ch)
       THEN (IF DigitsLeq(BigSub(ch, v), BigSub(v, cl)) THEN ch ELSE cl)
     ELSE IF Inside(cl) THEN cl
     ELSE IF Inside(ch) THEN ch
     ELSE F64ShortestLoop(v, lo, lo_incl, hi, hi_incl, j - 1)

F64Shortest(f) ==
  LET v == BigShl(f.m, f.k)
      even == BigHalf(f.m).r = 0
      hi == BigAdd(v, BigShl(<<"1">>, f.k - 1))
      \* below a power of two the gap is half as wide
      lo == IF f.m # TWO52 THEN BigSub(v, BigShl(<<"1">>, f.k - 1))
            ELSE IF f.k >= 2 THEN BigSub(v, BigShl(<<"1">>, f.k - 2))
            ELSE v
      lo_incl == even \/ (f.m = TWO52 /\ f.k < 2)
  IN IF f.k = 0 THEN v
     ELSE F64ShortestLoop(v, lo, lo_incl, hi, even, Len(v) - 1)

\* Number::as_f64 with the integer fallback: the f64 nearest to n.  A float
\* is written by its shortest digits, which are the digits that Display
\* prints.
AsF64(n) ==
  IF n.k = "i" /\ n.sp = "fin"
  THEN [k |-> "f", sp |-> "fin", neg |-> n.neg,
        mag |-> F64Shortest(IntAsF64(n.mag)), frac |-> <<>>]
  ELSE [k |-> "f", sp |-> n.sp, neg |-> n.neg, mag |-> n.mag, frac |-> n.frac]

RECURSIVE MapKeys(_)
MapKeys(m) == IF Len(m) = 0 THEN <<>> ELSE <<m[1][1]>> \o MapKeys(Tail(m))

RECURSIVE StrValues(_)
StrValues(keys) ==
  IF Len(keys) = 0 THEN <<>> ELSE <<Str(keys[1])>> \o StrValues(Tail(keys))

\* the accumulator is left as the bare tag
NormalizeEmptyArray_skipped(acc) == acc

\* if acc == "a" { acc = "a|" }
NormalizeEmptyArray(acc) == IF acc = <<"a">> THEN <<"a","|">> ELSE acc

\* throw_unsupported_data that returns to its caller, which then answers
\* with the empty key
throw_unsupported_data_silent(m) == [mem |-> m, key |-> <<>>, ok |-> TRUE]

\* throw_unsupported_data: always panics; ok = FALSE is the unwinding
throw_unsupported_data(m) == [mem |-> m, key |-> <<>>, ok |-> FALSE]

RECURSIVE add_value(_, _, _)
RECURSIVE get_schema(_, _, _)
RECURSIVE AddArrayLoop(_, _, _, _, _)
RECURSIVE AddObjectLoop(_, _, _, _, _)

\* the for loop of the Value::Array branch, from element i on
AddArrayLoop(c, m, arr, i, acc) ==
  IF i > Len(arr) THEN [mem |-> m, key |-> acc, ok |-> TRUE]
  ELSE
    LET v == arr[i]
        r == IF v.t = "null"
             THEN [mem |-> m, key |-> <<"_">>, ok |-> TRUE]
             ELSE add_value(c, m, v)
    IN IF ~r.ok THEN r
       ELSE AddArrayLoop(c, r.mem, arr, i + 1, acc \o <<"|">> \o r.key)

\* the for loop of the Value::Object branch, from entry i on
AddObjectLoop(c, m, map, i, acc) ==
  IF i > Len(map) THEN [mem |-> m, key |-> acc, ok |-> TRUE]
  ELSE
    LET r == add_value(c, m, map[i][2])
    IN IF ~r.ok THEN r
       ELSE AddObjectLoop(c, r.mem, map, i + 1, acc \o <<"|">> \o r.key)

\* get_schema that stores the schema as the joined string
get_schema_joined(c, m, keys) ==
  LET schema_keys == IF c.sort_key THEN Sort(keys) ELSE keys
      schema == Join(schema_keys, <<",">>)
  IN
  IF schema \in DOMAIN m.schema_cache
  THEN [mem |-> m, key |-> m.schema_cache[schema], ok |-> TRUE]
  ELSE
    LET r == add_value(c, m, Str(schema))
    IN IF ~r.ok THEN r
       ELSE [mem |-> [r.mem EXCEPT !.schema_cache = (schema :> r.key) @@ r.mem.schema_cache],
             key |-> r.key, ok |-> TRUE]

\* get_schema that also interns the joined names it uses as the cache key
get_schema_interns_joined(c, m, keys) ==
  LET schema_keys == IF c.sort_key THEN Sort(keys) ELSE keys
      schema == Join(schema_keys, <<",">>)
  IN
  IF schema \in DOMAIN m.schema_cache
  THEN [mem |-> m, key |-> m.schema_cache[schema], ok |-> TRUE]
  ELSE
    LET arr == Arr(StrValues(schema_keys))
        r == add_value(c, add_value(c, m, Str(schema)).mem, arr)
    IN [mem |-> [r.mem EXCEPT !.schema_cache = (schema :> r.key) @@ r.mem.schema_cache],
        key |-> r.key, ok |-> TRUE]

\* get_schema: [mem, key, ok]
get_schema(c, m, keys) ==
  LET schema_keys == IF c.sort_key THEN Sort(keys) ELSE keys
      schema == Join(schema_keys, <<",">>)
  IN
  IF schema \in DOMAIN m.schema_cache
  THEN [mem |-> m, key |-> m.schema_cache[schema], ok |-> TRUE]
  ELSE
    LET arr == Arr(StrValues(schema_keys))
        r == add_value(c, m, arr)
    IN IF ~r.ok THEN r
       ELSE [mem |-> [r.mem EXCEPT !.schema_cache = (schema :> r.key) @@ r.mem.schema_cache],
             key |-> r.key, ok |-> TRUE]

\* add_value: [mem, key, ok]; ok = FALSE is a panic (throw_unsupported_data)
add_value(c, m, o) ==
  IF o.t = "null" THEN [mem |-> m, key |-> <<>>, ok |-> TRUE]
  ELSE IF o.t = "bool" THEN get_value_key(m, encode_bool(o.b))
  ELSE IF o.t = "num" THEN
    LET f == AsF64(o.n) IN
    IF f.sp = "nan" THEN
      IF c.error_on_nan THEN throw_unsupported_data(m)
      ELSE [mem |-> m, key |-> <<>>, ok |-> TRUE]
    ELSE IF f.sp = "inf" THEN
      IF c.error_on_infinite THEN throw_unsupported_data(m)
      ELSE [mem |-> m, key |-> <<>>, ok |-> TRUE]
    ELSE get_value_key(m, encode_num(f))
  ELSE IF o.t = "str" THEN get_value_key(m, encode_str(o.s))
  ELSE IF o.t = "arr" THEN
    LET r == AddArrayLoop(c, m, o.a, 1, <<"a">>)
        acc == NormalizeEmptyArray(r.key)
    IN IF ~r.ok THEN r
       ELSE get_value_key(r.mem, acc)
  ELSE \* "obj"
    LET keys == MapKeys(o.m) IN
    IF Len(keys) = 0 THEN get_value_key(m, <<"o","|">>)
    ELSE
      LET s == get_schema(c, m, keys) IN
      IF ~s.ok THEN s
      ELSE
        LET r == AddObjectLoop(c, s.mem, o.m, 1, <<"o","|">> \o s.key)
        IN IF ~r.ok THEN r
           ELSE get_value_key(r.mem, r.key)

(***************************************************************************)
(* core.rs                                                                 *)
(***************************************************************************)
\* compress: [values, root, ok]
compress(c, o) ==
  LET r == add_value(c, make_memory, o)
  IN [values |-> mem_to_values(r.mem), root |-> r.key, ok |-> r.ok, mem |-> r.mem]

\* Map::insert: an existing entry keeps its place and takes the new value
RECURSIVE MapInsert(_, _, _)
MapInsert(m, k, v) ==
  IF Len(m) = 0 THEN << <<k, v>> >>
  ELSE IF m[1][1] = k THEN << <<k, v>> >> \o Tail(m)
  ELSE <<m[1]>> \o MapInsert(Tail(m), k, v)

\* a null-key test that knows the empty key only
IsNullKey_empty_only(key) == Len(key) = 0

\* key.is_empty() || key == "_"
IsNullKey(key) == Len(key) = 0 \/ key = <<"_">>

RECURSIVE decode(_, _, _, _)
RECURSIVE DecodeArrayLoop(_, _, _, _, _, _)
RECURSIVE DecodeObjectLoop(_, _, _, _, _, _, _)
RECURSIVE SchemaKeys(_)

\* the for loop of decode_array, from part i on (parts[1] is the tag)
DecodeArrayLoop(checks, values, parts, i, arr, fuel) ==
  IF i > Len(parts) THEN Arr(arr)
  ELSE
    LET v == decode(checks, values, parts[i], fuel)
    IN IF v.t = "panic" THEN v
       ELSE DecodeArrayLoop(checks, values, parts, i + 1, Append(arr, v), fuel)

decode_array(checks, values, s, fuel) ==
  IF s = <<"a","|">> THEN Arr(<<>>)
  ELSE DecodeArrayLoop(checks, values, Split(s, "|"), 2, <<>>, fuel)

\* the closure with a default name for an element that is not a string
SchemaKeys_lenient(arr) ==
  IF Len(arr) = 0 THEN [ok |-> TRUE, keys |-> <<>>]
  ELSE LET rest == SchemaKeys(Tail(arr))
       IN [ok |-> rest.ok,
           keys |-> <<IF arr[1].t = "str" THEN arr[1].s ELSE <<>> >> \o rest.keys]

\* the closure that maps the decoded schema array to the list of names
SchemaKeys(arr) ==
  IF Len(arr) = 0 THEN [ok |-> TRUE, keys |-> <<>>]
  ELSE IF arr[1].t # "str" THEN [ok |-> FALSE, keys |-> <<>>]
  ELSE LET rest == SchemaKeys(Tail(arr))
       IN [ok |-> rest.ok, keys |-> <<arr[1].s>> \o rest.keys]

\* the for loop of decode_object, from part i on (parts[1] is the tag,
\* parts[2] the schema key)
DecodeObjectLoop(checks, values, parts, keys, i, map, fuel) ==
  IF i > Len(parts) THEN Obj(map)
  ELSE
    LET v == decode(checks, values, parts[i], fuel)
    IN IF v.t = "panic" THEN v
       ELSE IF i - 2 > Len(keys) THEN Panic("index out of bounds")
       ELSE DecodeObjectLoop(checks, values, parts, keys, i + 1,
                             MapInsert(map, keys[i - 2], v), fuel)

decode_object(checks, values, s, fuel) ==
  IF s = <<"o","|">> THEN Obj(<<>>)
  ELSE
    LET parts == Split(s, "|")
        key_id == parts[2]
        keys_val == decode(checks, values, key_id, fuel)
    IN
    IF keys_val.t = "panic" THEN keys_val
    ELSE IF keys_val.t = "str"
      THEN DecodeObjectLoop(checks, values, parts, <<keys_val.s>>, 3, <<>>, fuel)
    ELSE IF keys_val.t = "arr" THEN
      LET ks == SchemaKeys(keys_val.a) IN
      IF ~ks.ok THEN Panic("Invalid key type in decode_object")
      ELSE DecodeObjectLoop(checks, values, parts, ks.keys, 3, <<>>, fuel)
    ELSE Panic("Invalid keys in decode_object")

\* the n| branch of decode
DecodeNumber(v_str) ==
  LET num_str == StripPrefix(v_str, <<"n","|">>)
      plain == ~Contains(num_str, ".") /\ ~Contains(num_str, "e")
               /\ ~Contains(num_str, "E")
      i == ParseI64(num_str)
      u == ParseU64(num_str)
      num == decode_num(v_str)
  IN
  IF plain /\ i.ok THEN NumV(IntN(i.neg, i.mag))
  ELSE IF plain /\ u.ok THEN NumV(IntN(FALSE, u.mag))
  ELSE IF ~num.ok THEN Panic("invalid number")
  ELSE IF num.f.sp # "fin" THEN Panic("Invalid number")
  ELSE NumV(num.f)

\* decode.  fuel is the call depth that is left: a chain of references
\* longer than the value list revisits an entry and never returns, which
\* ends the process by stack exhaustion.
decode(checks, values, key, fuel) ==
  IF IsNullKey(key) THEN Null
  ELSE IF fuel = 0 THEN Panic("stack overflow")
  ELSE
    LET id == decode_key(checks, key) IN
    IF ~id.ok THEN Panic("invalid key")
    ELSE IF id.v >= Len(values) THEN Panic("index out of bounds")
    ELSE
      LET v_str == values[id.v + 1] IN
      IF StartsWith(v_str, <<"b","|">>) THEN Bool(decode_bool(v_str))
      ELSE IF StartsWith(v_str, <<"o","|">>)
        THEN decode_object(checks, values, v_str, fuel - 1)
      ELSE IF is_special_value(v_str) THEN
        (IF decode_special(v_str).ok THEN Null
         ELSE Panic("Invalid special value encoding"))
      ELSE IF StartsWith(v_str, <<"n","|">>) THEN DecodeNumber(v_str)
      ELSE IF StartsWith(v_str, <<"a","|">>)
        THEN decode_array(checks, values, v_str, fuel - 1)
      ELSE Str(decode_str(v_str))

decompress(checks, values, root) == decode(checks, values, root, Len(values) + 1)

(***************************************************************************)
(* helpers.rs                                                              *)
(***************************************************************************)
\* Map::get of a name that the map holds
RECURSIVE MapGet(_, _)
MapGet(m, k) == IF m[1][1] = k THEN m[1][2] ELSE MapGet(Tail(m), k)

\* Map::remove: the map without the entry of the name
RECURSIVE MapRemove(_, _)
MapRemove(m, k) ==
  IF Len(m) = 0 THEN <<>>
  ELSE IF m[1][1] = k THEN Tail(m)
  ELSE <<m[1]>> \o MapRemove(Tail(m), k)

\* Map::retain(|_, v| !v.is_null())
RECURSIVE RetainNonNull(_)
RetainNonNull(m) ==
  IF Len(m) = 0 THEN <<>>
  ELSE IF m[1][2].t = "null" THEN RetainNonNull(Tail(m))
  ELSE <<m[1]>> \o RetainNonNull(Tail(m))

\* a retain that goes on into the maps nested in the map
RECURSIVE RetainNonNullNested(_)
RetainNonNullNested(m) ==
  IF Len(m) = 0 THEN <<>>
  ELSE IF m[1][2].t = "null" THEN RetainNonNullNested(Tail(m))
  ELSE IF m[1][2].t = "obj"
    THEN << <<m[1][1], Obj(RetainNonNullNested(m[1][2].m))>> >>
           \o RetainNonNullNested(Tail(m))
  ELSE <<m[1]>> \o RetainNonNullNested(Tail(m))

\* a trim that also trims the nested maps
trim_undefined_nested(object) == RetainNonNullNested(object)

trim_undefined(object) == RetainNonNull(object)

\* The addresses that trim_undefined_recursively compares.  The argument
\* lives at the caller's address.  The local m of an invocation of recurse
\* at call depth d lives in that invocation's stack frame; whether two
\* iterations of the loop (and two invocations at the same depth) find m at
\* the same address is the choice of the build: with slot_reuse they do,
\* without it every m has an address not seen before.
RootAddr == <<"caller">>

SlotAddr(slot_reuse, d, tracks) ==
  IF slot_reuse THEN <<"frame", d>> ELSE <<"frame", d, Len(tracks)>>

InTracks(tracks, ptr) == \E i \in 1..Len(tracks) : tracks[i] = ptr

RECURSIVE recurse(_, _, _, _, _, _, _)
RECURSIVE RecurseLoop(_, _, _, _, _, _, _, _)

\* the for loop of recurse over the cloned keys, from key i on:
\* [m, tracks, tests].  path holds the addresses of the maps whose recurse
\* call is running (the call stack), and tests records every evaluation of
\* tracks.contains(&ptr): the tracks and the path at that moment, the
\* address tested and the outcome.
RecurseLoop(slot_reuse, obj, keys, i, tracks, path, tests, d) ==
  IF i > Len(keys) THEN [m |-> obj, tracks |-> tracks, tests |-> tests]
  ELSE
    LET key == keys[i]
        v == MapGet(obj, key)
        removed == MapRemove(obj, key)
        ptr == SlotAddr(slot_reuse, d, tracks)
        tested == Append(tests, [tracks |-> tracks, path |-> path, ptr |-> ptr,
                                 skipped |-> InTracks(tracks, ptr)])
    IN
    IF v.t = "null"
      THEN RecurseLoop(slot_reuse, removed, keys, i + 1, tracks, path, tests, d)
    ELSE IF v.t = "obj" THEN
      IF ~InTracks(tracks, ptr) THEN
        LET r == recurse(slot_reuse, v.m, ptr, tracks, path, tested, d + 1)
        IN RecurseLoop(slot_reuse, MapInsert(removed, key, Obj(r.m)), keys, i + 1,
                       r.tracks, path, r.tests, d)
      ELSE RecurseLoop(slot_reuse, MapInsert(removed, key, v), keys, i + 1,
                       tracks, path, tested, d)
    ELSE RecurseLoop(slot_reuse, MapInsert(removed, key, v), keys, i + 1,
                     tracks, path, tests, d)

\* recurse(obj, tracks), obj at address addr, running at call depth d
recurse(slot_reuse, obj, addr, tracks, path, tests, d) ==
  RecurseLoop(slot_reuse, obj, MapKeys(obj), 1, Append(tracks, addr),
              Append(path, addr), tests, d)

trim_undefined_recursively(slot_reuse, object) ==
  recurse(slot_reuse, object, RootAddr, <<>>, <<>>, <<>>, 0).m

\* the evaluations of tracks.contains during trim_undefined_recursively
TrackTests(slot_reuse, object) ==
  recurse(slot_reuse, object, RootAddr, <<>>, <<>>, <<>>, 0).tests

(***************************************************************************)
(* Scenario 1 (SpecKey): the key codec.  An index of the machine word is   *)
(* encoded by int_to_s and the key is decoded by s_to_int, in both build   *)
(* profiles.                                                               *)
(***************************************************************************)
InitKey ==
  /\ cfg \in {[CONFIG EXCEPT !.overflow_checks = b] : b \in BOOLEAN}
  /\ pc = "idle"
  /\ arg \in 0..MaxWord
  /\ mem = make_memory
  /\ pre = make_memory
  /\ ret = <<>>
  /\ ret0 = <<>>
  /\ out = [ok |-> TRUE, v |-> 0]
  /\ calls = 0

IntToS ==
  /\ pc = "idle"
  /\ pc' = "key_encoded"
  /\ ret' = int_to_s(arg)
  /\ UNCHANGED <<cfg, arg, mem, pre, ret0, out, calls>>

SToInt ==
  /\ pc = "key_encoded"
  /\ pc' = "key_decoded"
  /\ out' = s_to_int(cfg.overflow_checks, ret)
  /\ UNCHANGED <<cfg, arg, mem, pre, ret, ret0, calls>>

NextKey ==
  \/ IntToS
  \/ SToInt

SpecKey == InitKey /\ [][NextKey]_vars

(***************************************************************************)
(* Scenario 2 (SpecStr): string escaping.  A text is encoded by encode_str *)
(* and decoded by decode_str.                                              *)
(***************************************************************************)
\* the characters of the texts: the tag letters, the separators and a
\* letter that is in no tag
StrChars == {"b", "o", "n", "N", "a", "s", "|", "x"}

RECURSIVE TextsOfLen(_, _)
TextsOfLen(chars, n) ==
  IF n = 0 THEN {<<>>}
  ELSE {<<c>> \o t : c \in chars, t \in TextsOfLen(chars, n - 1)}

TextsUpTo(chars, n) == UNION {TextsOfLen(chars, k) : k \in 0..n}

StrTexts == TextsUpTo(StrChars, MaxStrLen)

InitStr ==
  /\ cfg = CONFIG
  /\ pc = "idle"
  /\ arg \in StrTexts
  /\ mem = make_memory
  /\ pre = make_memory
  /\ ret = <<>>
  /\ ret0 = <<>>
  /\ out = <<>>
  /\ calls = 0

EncodeStr ==
  /\ pc = "idle"
  /\ pc' = "str_encoded"
  /\ ret' = encode_str(arg)
  /\ UNCHANGED <<cfg, arg, mem, pre, ret0, out, calls>>

DecodeStr ==
  /\ pc = "str_encoded"
  /\ pc' = "str_decoded"
  /\ out' = decode_str(ret)
  /\ UNCHANGED <<cfg, arg, mem, pre, ret, ret0, calls>>

\* the string is interned in a fresh Store (add_value) and its key is
\* decoded against the value list
DecodeInterned ==
  /\ pc = "str_encoded"
  /\ pc' = "interned_decoded"
  /\ LET r == add_value(cfg, make_memory, Str(arg))
     IN /\ mem' = r.mem
        /\ ret0' = r.key
        /\ out' = decode(cfg.overflow_checks, mem_to_values(r.mem), r.key,
                         Len(r.mem.store) + 1)
  /\ UNCHANGED <<cfg, arg, pre, ret, calls>>

NextStr ==
  \/ EncodeStr
  \/ DecodeStr
  \/ DecodeInterned

SpecStr == InitStr /\ [][NextStr]_vars

(***************************************************************************)
(* Properties of the key codec                                             *)
(***************************************************************************)
KeyTable == {int_to_s(j) : j \in 0..MaxWord}

\* distinct indexes get distinct keys
KeysInjective == Cardinality(KeyTable) = MaxWord + 1

\* C4: for every index i of the machine word, s_to_int(int_to_s(i)) returns
\* i without a panic, and int_to_s is injective.
C4_KeyRoundTrip ==
  /\ pc = "key_decoded" => (out.ok /\ out.v = arg)
  /\ KeysInjective

\* the digit value of a character, from its class (digits, then uppercase,
\* then lowercase)
Decimals == <<"0","1","2","3","4","5","6","7","8","9">>
Uppers == <<"A","B","C","D","E","F","G","H","I","J","K","L","M",
            "N","O","P","Q","R","S","T","U","V","W","X","Y","Z">>
Lowers == <<"a","b","c","d","e","f","g","h","i","j","k","l","m",
            "n","o","p","q","r","s","t","u","v","w","x","y","z">>

PosIn(seq, c) == IF \E i \in 1..Len(seq) : seq[i] = c
                 THEN CHOOSE i \in 1..Len(seq) : seq[i] = c ELSE 0

Radix62Digit(c) ==
  IF PosIn(Decimals, c) > 0 THEN PosIn(Decimals, c) - 1
  ELSE IF PosIn(Uppers, c) > 0 THEN 9 + PosIn(Uppers, c)
  ELSE IF PosIn(Lowers, c) > 0 THEN 35 + PosIn(Lowers, c)
  ELSE -1

\* the value of a numeral, most significant digit first
RECURSIVE NumeralValue(_)
NumeralValue(s) ==
  IF Len(s) = 0 THEN 0
  ELSE 62 * NumeralValue(SubSeq(s, 1, Len(s) - 1)) + Radix62Digit(s[Len(s)])

IsStandardNumeral(s, i) ==
  /\ Len(s) >= 1
  /\ \A k \in 1..Len(s) : Radix62Digit(s[k]) \in 0..61
  /\ NumeralValue(s) = i
  /\ (s[1] = "0" => s = <<"0">>)

\* C5: int_to_s(i) is the standard radix-62 numeral of i over 0-9, A-Z, a-z,
\* most significant digit first, without a leading "0" except for index 0;
\* 0 -> "0", 9 -> "9", 10 -> "A", 35 -> "Z", 36 -> "a", 61 -> "z", 62 -> "10".
C5_StandardNumeral ==
  pc \in {"key_encoded", "key_decoded"} =>
    /\ IsStandardNumeral(ret, arg)
    /\ (arg = 0 => ret = <<"0">>)
    /\ (arg = 9 => ret = <<"9">>)
    /\ (arg = 10 => ret = <<"A">>)
    /\ (arg = 35 => ret = <<"Z">>)
    /\ (arg = 36 => ret = <<"a">>)
    /\ (arg = 61 => ret = <<"z">>)
    /\ (arg = 62 => ret = <<"1","0">>)

\* a three-digit index has been encoded
C5_Witness == pc = "key_encoded" /\ arg = 62 * 62 + 10 /\ ret = <<"1","0","A">>

(***************************************************************************)
(* Properties of string escaping                                           *)
(***************************************************************************)
\* C6: decode_str(encode_str(s)) = s for every text s, also when s begins
\* with "s|" or another tag and when what follows one "s|" is again a tag.
C6_StrRoundTrip == pc = "str_decoded" => out = arg

\* a text that begins with the escape tag followed by another tag
C6_Witness ==
  /\ pc = "str_decoded"
  /\ arg = <<"s","|","n","|">>
  /\ ret = <<"s","|","s","|","n","|">>
  /\ out = arg

(***************************************************************************)
(* Scenario 3 (SpecStore): one Store, built by make_memory, on which       *)
(* add_value is called with a sequence of values, under every CONFIG.      *)
(***************************************************************************)
T1 == <<"1">>
TA == <<"a">>
TB == <<"b">>
TAB == <<"a", ",", "b">>
TX == <<"x">>

StoreConfigs == {c \in Config : c.overflow_checks}

StoreInputs ==
  { Null, Bool(TRUE), NumV(IntN(FALSE, T1)),
    NumV(NaN), NumV(Inf(FALSE)), NumV(Inf(TRUE)),
    Str(TX), Str(TAB),
    Arr(<<>>), Arr(<<Null>>), Arr(<<NumV(NaN)>>), Arr(<<Str(TA), Str(TB)>>),
    Obj(<<>>),
    Obj(<< <<TAB, Bool(TRUE)>> >>),
    Obj(<< <<TA, Bool(TRUE)>>, <<TB, Null>> >>),
    Obj(<< <<TB, NumV(IntN(FALSE, T1))>>, <<TA, Str(TX)>> >>),
    \* values on which add_value fails part-way under an error flag
    Arr(<<Str(TX), NumV(NaN)>>),
    Obj(<< <<TA, Bool(TRUE)>>, <<TB, NumV(Inf(FALSE))>> >>) }

InitStore ==
  /\ cfg \in StoreConfigs
  /\ pc = "idle"
  /\ arg = Null
  /\ mem = make_memory
  /\ pre = make_memory
  /\ ret = [key |-> <<>>, ok |-> TRUE]
  /\ ret0 = [key |-> <<>>, ok |-> TRUE]
  /\ out = Null
  /\ calls = 0

\* one add_value call on the Store
Call(v, next) ==
  LET r == add_value(cfg, mem, v) IN
  /\ arg' = v
  /\ pre' = mem
  /\ mem' = r.mem
  /\ ret0' = ret
  /\ ret' = [key |-> r.key, ok |-> r.ok]
  /\ pc' = IF r.ok THEN next ELSE "panicked"
  /\ calls' = calls + 1
  /\ UNCHANGED <<cfg, out>>

\* a caller that has caught the panic of a call goes on with the Store
AddValue(v) ==
  /\ pc \in {"idle", "added", "again", "panicked"}
  /\ calls < MaxCalls
  /\ Call(v, "added")

\* the same value is added a second time, right after the first
AddValueAgain ==
  /\ pc = "added"
  /\ Call(arg, "again")

NextStore ==
  \/ \E v \in StoreInputs : AddValue(v)
  \/ AddValueAgain

SpecStore == InitStore /\ [][NextStore]_vars

\* the 1-based position in the value list that a key refers to (0: none)
KeyPos(key) ==
  IF Len(key) = 0 \/ key = <<"_">> THEN 0
  ELSE LET id == s_to_int(FALSE, key) IN IF id.ok THEN id.v + 1 ELSE 0

\* C2: in any reachable Store and for any value v, two consecutive
\* add_value(store, v) calls return the same key, and the second call leaves
\* the value list, both caches and the counter unchanged; the value is
\* stored exactly once.
C2_DedupIdempotent ==
  pc = "again" =>
    /\ ret.ok /\ ret0.ok
    /\ ret.key = ret0.key
    /\ mem = pre
    /\ (KeyPos(ret.key) > 0 =>
          /\ KeyPos(ret.key) <= Len(mem.store)
          /\ Cardinality({i \in 1..Len(mem.store) :
                            mem.store[i] = mem.store[KeyPos(ret.key)]}) = 1)

\* an object has been added twice to a Store that already held entries
C2_Witness ==
  /\ pc = "again"
  /\ arg.t = "obj" /\ Len(arg.m) = 2
  /\ Len(pre.store) >= 4
  /\ ret.key # <<>>

T5 == <<"5">>
T42 == <<"4", "2">>
T0 == <<"0">>

FiniteLeaves ==
  { Null, Bool(TRUE), Bool(FALSE),
    NumV(IntN(FALSE, T1)), NumV(IntN(TRUE, T5)),
    NumV(FloatN(FALSE, <<"2">>, T5)), NumV(FloatN(FALSE, T42, <<>>)),
    NumV(FloatN(TRUE, T0, <<>>)),
    Str(<<>>), Str(TX), Str(TAB), Str(<<"s","|","n","|">>), Str(<<"a","|">>),
    Str(<<"_">>) }

SpecialLeaves == { NumV(NaN), NumV(Inf(FALSE)), NumV(Inf(TRUE)) }

Leaves == FiniteLeaves \cup SpecialLeaves

Names == {TA, TB, TAB}

\* the lists of one or two distinct property names, in every order
NameLists ==
  {<<n>> : n \in Names}
    \cup {l \in {<<n1, n2>> : n1 \in Names, n2 \in Names} : l[1] # l[2]}

\* the objects with the names of list l and values from vs
ObjectsOver(l, vs) ==
  IF Len(l) = 1 THEN {Obj(<< <<l[1], v>> >>) : v \in vs}
  ELSE {Obj(<< <<l[1], v1>>, <<l[2], v2>> >>) : v1 \in vs, v2 \in vs}

ArraysUpTo2(vs) ==
  {Arr(<<>>)} \cup {Arr(<<v>>) : v \in vs} \cup {Arr(<<v1, v2>>) : v1 \in vs, v2 \in vs}

PropValues ==
  { Null, Bool(TRUE), NumV(NaN), NumV(IntN(FALSE, T1)), Str(TX), Arr(<<>>), Obj(<<>>) }

Depth1 ==
  ArraysUpTo2(Leaves \cup {Arr(<<>>), Obj(<<>>)})
    \cup {Obj(<<>>)}
    \cup UNION {ObjectsOver(l, PropValues) : l \in NameLists}

Mid ==
  { Arr(<<>>), Arr(<<Null>>), Arr(<<NumV(NaN)>>), Arr(<<Bool(TRUE)>>),
    Arr(<<Arr(<<>>)>>), Obj(<<>>),
    Obj(<< <<TAB, Bool(TRUE)>> >>),
    Obj(<< <<TA, Bool(TRUE)>>, <<TB, Bool(TRUE)>> >>),
    Obj(<< <<TB, Bool(TRUE)>>, <<TA, Null>> >>),
    Obj(<< <<TA, Obj(<< <<TB, Obj(<<>>)>> >>)>> >>) }

Depth2 ==
  ArraysUpTo2(Mid) \cup UNION {ObjectsOver(l, Mid) : l \in NameLists}

\* the arrays of n objects that all have the name list l
RECURSIVE SameSchemaSeqs(_, _)
SameSchemaSeqs(l, n) ==
  IF n = 0 THEN {<<>>}
  ELSE {<<o>> \o rest : o \in ObjectsOver(l, {Bool(TRUE), NumV(IntN(FALSE, T1))}),
                        rest \in SameSchemaSeqs(l, n - 1)}

SameSchemaArrays ==
  {Arr(a) : a \in UNION {SameSchemaSeqs(l, n) : l \in NameLists, n \in 1..MaxN}}

\* integers around 2^53 and at the ends of i64 and u64
BigIntLeaves ==
  { NumV(IntN(FALSE, TWO53)),
    NumV(IntN(FALSE, BigAdd(TWO53, <<"1">>))),
    NumV(IntN(TRUE, BigAdd(TWO53, <<"1">>))),
    NumV(IntN(FALSE, BigAdd(TWO53, <<"2">>))),
    NumV(IntN(FALSE, I64_MAX)),
    NumV(IntN(TRUE, I64_MIN_MAG)),
    NumV(IntN(FALSE, U64_MAX)) }

TreeInputs ==
  Leaves \cup BigIntLeaves \cup Depth1 \cup Depth2 \cup SameSchemaArrays

\* the builds of the tree scenario: the preserve flags are off
TreeConfigs ==
  {c \in Config : c.overflow_checks /\ ~c.preserve_nan /\ ~c.preserve_infinite}

Init ==
  /\ cfg \in TreeConfigs
  /\ pc = "idle"
  /\ arg \in TreeInputs
  /\ mem = make_memory
  /\ pre = make_memory
  /\ ret = [key |-> <<>>, ok |-> TRUE]
  /\ ret0 = [key |-> <<>>, ok |-> TRUE]
  /\ out = Null
  /\ calls = 0

\* compress(arg): mem holds the Store that mem_to_values copies, ret the
\* root; a panic unwinds through compress, which drops its Store
Compress ==
  /\ pc = "idle"
  /\ LET r == compress(cfg, arg) IN
       /\ mem' = (IF r.ok THEN r.mem ELSE make_memory)
       /\ ret' = [key |-> r.root, ok |-> r.ok]
       /\ pc' = IF r.ok THEN "compressed" ELSE "panicked"
  /\ calls' = calls + 1
  /\ UNCHANGED <<cfg, arg, pre, ret0, out>>

\* decompress((values, root))
Decompress ==
  /\ pc = "compressed"
  /\ out' = decompress(cfg.overflow_checks, mem_to_values(mem), ret.key)
  /\ pc' = "decoded"
  /\ UNCHANGED <<cfg, arg, mem, pre, ret, ret0, calls>>

Next == Compress \/ Decompress

Spec == Init /\ [][Next]_vars

(***************************************************************************)
(* Properties of compress and decompress                                   *)
(***************************************************************************)
\* <Number as PartialEq>: same variant and same value (-0.0 == 0.0)
NumEq(x, y) ==
  /\ x.k = y.k /\ x.sp = "fin" /\ y.sp = "fin"
  /\ x.mag = y.mag /\ x.frac = y.frac
  /\ (x.neg = y.neg \/ (x.mag = T0 /\ x.frac = <<>>))

\* <Value as PartialEq>: the order of the entries of a Map does not count
RECURSIVE ValEq(_, _)
ValEq(a, b) ==
  IF a.t # b.t THEN FALSE
  ELSE IF a.t = "num" THEN NumEq(a.n, b.n)
  ELSE IF a.t = "arr" THEN
    /\ Len(a.a) = Len(b.a)
    /\ \A i \in 1..Len(a.a) : ValEq(a.a[i], b.a[i])
  ELSE IF a.t = "obj" THEN
    /\ Len(a.m) = Len(b.m)
    /\ \A i \in 1..Len(a.m) :
         \E j \in 1..Len(b.m) : a.m[i][1] = b.m[j][1] /\ ValEq(a.m[i][2], b.m[j][2])
  ELSE a = b

\* no NaN and no infinity anywhere in the tree
RECURSIVE Finite(_)
Finite(v) ==
  IF v.t = "num" THEN v.n.sp = "fin"
  ELSE IF v.t = "arr" THEN \A i \in 1..Len(v.a) : Finite(v.a[i])
  ELSE IF v.t = "obj" THEN \A i \in 1..Len(v.m) : Finite(v.m[i][2])
  ELSE TRUE

\* C1: for every tree value v built from null, booleans, finite numbers,
\* strings, arrays and objects, decompress(compress(v)) equals v.
C1_RoundTrip ==
  pc = "decoded" /\ cfg = CONFIG /\ Finite(arg) => ValEq(out, arg)

\* the entry of the value list that a key refers to
EntryAt(key) == mem.store[KeyPos(key)]

\* the value that decode returns for the entry at 1-based position i
DecodeAt(i) ==
  decode(cfg.overflow_checks, mem.store, int_to_s(i - 1), Len(mem.store) + 1)

IsSameSchemaArray(v) ==
  /\ v.t = "arr" /\ Len(v.a) >= 1
  /\ \A i \in 1..Len(v.a) :
       /\ v.a[i].t = "obj"
       /\ Len(v.a[i].m) >= 1
       /\ MapKeys(v.a[i].m) = MapKeys(v.a[1].m)

\* the positions of the value list whose entry holds the name list
SchemaHolders(names) ==
  {i \in 1..Len(mem.store) : DecodeAt(i) = Arr(StrValues(names))}

\* C3: compressing an array of n >= 1 non-empty objects that all have the
\* same property-name list yields a value list with exactly one entry that
\* holds the name list, and every one of the n object entries references it.
C3_SchemaSharing ==
  pc \in {"compressed", "decoded"} /\ IsSameSchemaArray(arg) =>
    LET names == MapKeys(arg.a[1].m)
        canon == IF cfg.sort_key THEN Sort(names) ELSE names
        holders == SchemaHolders(canon)
        elems == Split(EntryAt(ret.key), "|")
    IN /\ Cardinality(holders) = 1
       /\ Len(elems) = Len(arg.a) + 1
       /\ \A j \in 2..Len(elems) :
            /\ KeyPos(elems[j]) \in 1..Len(mem.store)
            /\ StartsWith(EntryAt(elems[j]), <<"o","|">>)
            /\ KeyPos(Split(EntryAt(elems[j]), "|")[2]) \in holders

\* three objects with the same two names, not all equal, share one schema
C3_Witness ==
  /\ pc = "compressed"
  /\ IsSameSchemaArray(arg)
  /\ Len(arg.a) = 3 /\ Len(arg.a[1].m) = 2
  /\ arg.a[1] # arg.a[2] /\ arg.a[2] # arg.a[3] /\ arg.a[1] # arg.a[3]
  /\ Cardinality(SchemaHolders(MapKeys(arg.a[1].m))) = 1

\* C7: for every input array, decompress(compress(arr)) is an array of the
\* same length with null at exactly the positions where the input had null.
C7_ArrayShape ==
  pc = "decoded" /\ cfg = CONFIG /\ arg.t = "arr" /\ Finite(arg) =>
    /\ out.t = "arr"
    /\ Len(out.a) = Len(arg.a)
    /\ \A i \in 1..Len(arg.a) : (out.a[i].t = "null") <=> (arg.a[i].t = "null")

RECURSIVE HasEmpty(_, _)
HasEmpty(v, t) ==
  IF v.t = "arr"
    THEN (t = "arr" /\ Len(v.a) = 0) \/ \E i \in 1..Len(v.a) : HasEmpty(v.a[i], t)
  ELSE IF v.t = "obj"
    THEN (t = "obj" /\ Len(v.m) = 0) \/ \E i \in 1..Len(v.m) : HasEmpty(v.m[i][2], t)
  ELSE FALSE

EmptyArrayEntry == <<"a","|">>
EmptyObjectEntry == <<"o","|">>

\* C8: compress([]) stores the single entry "a|" and compress({}) the single
\* entry "o|"; a nested empty array / object is interned as "a|" / "o|", and
\* these entries decode to [] and {}: at the root and inside other arrays
\* and objects.
C8_EmptyContainers ==
  pc \in {"compressed", "decoded"} =>
    /\ (arg = Arr(<<>>) => mem.store = <<EmptyArrayEntry>> /\ ret.key = <<"0">>)
    /\ (arg = Obj(<<>>) => mem.store = <<EmptyObjectEntry>> /\ ret.key = <<"0">>)
    /\ (HasEmpty(arg, "arr") =>
          \E i \in 1..Len(mem.store) : mem.store[i] = EmptyArrayEntry)
    /\ (HasEmpty(arg, "obj") =>
          \E i \in 1..Len(mem.store) : mem.store[i] = EmptyObjectEntry)
    /\ \A i \in 1..Len(mem.store) :
         /\ (mem.store[i] = EmptyArrayEntry => DecodeAt(i) = Arr(<<>>))
         /\ (mem.store[i] = EmptyObjectEntry => DecodeAt(i) = Obj(<<>>))
    /\ (pc = "decoded" /\ arg \in {Arr(<<>>), Obj(<<>>)} => out = arg)

\* an empty array and an empty object nested in an array have round-tripped
C8_Witness ==
  /\ pc = "decoded"
  /\ arg = Arr(<<Arr(<<Arr(<<>>)>>), Obj(<<>>)>>)
  /\ out = arg

\* every finite number is an integer and no property name holds a ","
RECURSIVE Plain(_)
Plain(v) ==
  IF v.t = "num" THEN v.n.sp # "fin" \/ v.n.k = "i"
  ELSE IF v.t = "arr" THEN \A i \in 1..Len(v.a) : Plain(v.a[i])
  ELSE IF v.t = "obj"
    THEN \A i \in 1..Len(v.m) : ~Contains(v.m[i][1], ",") /\ Plain(v.m[i][2])
  ELSE TRUE

\* the tree with every NaN and infinity replaced by null
RECURSIVE Nullify(_)
RECURSIVE NullifySeq(_)
RECURSIVE NullifyMap(_)
NullifySeq(a) ==
  IF Len(a) = 0 THEN <<>> ELSE <<Nullify(a[1])>> \o NullifySeq(Tail(a))
NullifyMap(m) ==
  IF Len(m) = 0 THEN <<>>
  ELSE << <<m[1][1], Nullify(m[1][2])>> >> \o NullifyMap(Tail(m))
Nullify(v) ==
  IF v.t = "num" THEN (IF v.n.sp = "fin" THEN v ELSE Null)
  ELSE IF v.t = "arr" THEN Arr(NullifySeq(v.a))
  ELSE IF v.t = "obj" THEN Obj(NullifyMap(v.m))
  ELSE v

MaxLeaves == 1        \* leaf entries at the head of a hand-written list

\* the radix-62 numeral of n, for keys beyond the machine word
Numeral(n) == IF n = 0 THEN <<"0">> ELSE Reverse(IntToSLoop(n, <<>>))

\* the key whose radix-62 value is 2^WordBits: one more than usize::MAX
WrapKey == Numeral(WordMod)

LeafEntries ==
  { <<"x">>, <<>>,
    <<"b","|","T">>, <<"b","|","F">>, <<"b","|">>, <<"b","|","x">>,
    <<"N","|","0">>, <<"N","|","+">>, <<"N","|","-">>, <<"N","|","x">>,
    <<"n","|","1">> }

\* what stands in a reference position of a container entry
Refs == { <<>>, <<"_">>, <<"0">>, <<"1">>, <<"2">>, <<"9">>, <<"!">>, WrapKey }
PairRefs == { <<"_">>, <<"0">>, <<"1">> }
SchemaRefs == { <<>>, <<"0">>, <<"1">>, <<"2">>, <<"!">> }
ValueRefs == { <<>>, <<"0">>, <<"1">>, <<"9">> }

ArrayEntries ==
  {<<"a","|">>}
    \cup {<<"a","|">> \o k : k \in Refs}
    \cup {<<"a","|">> \o k1 \o <<"|">> \o k2 : k1 \in PairRefs, k2 \in PairRefs}

ObjectEntries ==
  {<<"o","|">>, <<"o","|","0">>, <<"o","|","0","|","1","|","1">>}
    \cup {<<"o","|">> \o k \o <<"|">> \o v : k \in SchemaRefs, v \in ValueRefs}

ContainerEntries == ArrayEntries \cup ObjectEntries

\* the container entries that may stand before the last one
InnerEntries ==
  { <<"a","|">>, <<"a","|","0">>, <<"a","|","0","|","_">>, <<"a","|","9">>,
    <<"o","|">>, <<"o","|","0","|","0">> }

RECURSIVE SeqsOfLen(_, _)
SeqsOfLen(S, n) ==
  IF n = 0 THEN {<<>>}
  ELSE {<<x>> \o t : x \in S, t \in SeqsOfLen(S, n - 1)}

ListHeads == UNION {SeqsOfLen(LeafEntries, n) : n \in 0..MaxLeaves}

ListTails ==
  {<<>>} \cup {<<c>> : c \in ContainerEntries}
    \cup {<<c1, c2>> : c1 \in InnerEntries, c2 \in ContainerEntries}

ValueLists == {h \o t : h \in ListHeads, t \in ListTails}

DirectKeys == { <<>>, <<"_">>, <<"0">>, <<"1">>, <<"2">>, <<"!">>, WrapKey }

InitDecode ==
  /\ cfg \in {[CONFIG EXCEPT !.overflow_checks = b] : b \in BOOLEAN}
  /\ pc = "idle"
  /\ arg \in [values : ValueLists, key : DirectKeys]
  /\ mem = make_memory
  /\ pre = make_memory
  /\ ret = <<>>
  /\ ret0 = <<>>
  /\ out = Null
  /\ calls = 0

\* decode(&values, key); a cycle of references ends by stack exhaustion
Decode ==
  /\ pc = "idle"
  /\ pc' = "list_decoded"
  /\ out' = decode(cfg.overflow_checks, arg.values, arg.key, Len(arg.values) + 1)
  /\ UNCHANGED <<cfg, arg, mem, pre, ret, ret0, calls>>

RECURSIVE DecodeBoolEach(_)
DecodeBoolEach(texts) ==
  IF Len(texts) = 0 THEN <<>>
  ELSE <<decode_bool(texts[1])>> \o DecodeBoolEach(Tail(texts))

\* decode_bool(s) for every entry s of the list, whatever its tag
DecodeBool ==
  /\ pc = "idle"
  /\ pc' = "bools_decoded"
  /\ ret' = DecodeBoolEach(arg.values)
  /\ UNCHANGED <<cfg, arg, mem, pre, ret0, out, calls>>

NextDecode ==
  \/ Decode
  \/ DecodeBool

SpecDecode == InitDecode /\ [][NextDecode]_vars

(***************************************************************************)
(* Scenario 6 (SpecTrim): trim_undefined and trim_undefined_recursively on *)
(* one map.                                                                *)
(***************************************************************************)
MaxDepth == 2         \* levels of maps nested below the argument

\* an array with a null and with a map that has a null-valued property
ArrNulls == Arr(<<Null, Obj(<< <<TA, Null>> >>)>>)

TrimLeaves == { Null, Bool(TRUE), ArrNulls }

RECURSIVE InnerMaps(_)
InnerMaps(d) ==
  IF d = 0
  THEN { <<>>, << <<TA, Null>> >>, << <<TB, Bool(TRUE)>> >>,
         << <<TA, Null>>, <<TB, ArrNulls>> >> }
  ELSE LET below == InnerMaps(d - 1)
       IN below
            \cup {<< <<TA, Obj(m)>> >> : m \in below}
            \cup {<< <<TA, Null>>, <<TB, Obj(m)>> >> : m \in below}

TrimValues == TrimLeaves \cup {Obj(m) : m \in InnerMaps(MaxDepth - 1)}

TrimInputs ==
  {<<>>}
    \cup {<< <<n, v>> >> : n \in {TA, TB}, v \in TrimValues}
    \cup {<< <<TA, v1>>, <<TB, v2>> >> : v1 \in TrimValues, v2 \in TrimValues}

InitTrim ==
  /\ cfg \in [slot_reuse : BOOLEAN]
  /\ pc = "idle"
  /\ arg \in TrimInputs
  /\ mem = make_memory
  /\ pre = make_memory
  /\ ret = <<>>
  /\ ret0 = <<>>
  /\ out = <<>>
  /\ calls = 0

\* trim_undefined(&mut arg): out is the map after the call
TrimUndefined ==
  /\ pc = "idle"
  /\ pc' = "trimmed"
  /\ out' = trim_undefined(arg)
  /\ UNCHANGED <<cfg, arg, mem, pre, ret, ret0, calls>>

\* trim_undefined_recursively(&mut arg): out is the map after the call and
\* ret the evaluations of the cycle guard during it
TrimUndefinedRecursively ==
  /\ pc = "idle"
  /\ pc' = "trimmed_recursively"
  /\ out' = trim_undefined_recursively(cfg.slot_reuse, arg)
  /\ ret' = TrackTests(cfg.slot_reuse, arg)
  /\ UNCHANGED <<cfg, arg, mem, pre, ret0, calls>>

NextTrim ==
  \/ TrimUndefined
  \/ TrimUndefinedRecursively

SpecTrim == InitTrim /\ [][NextTrim]_vars

(***************************************************************************)
(* Properties of compress under the error flags, of numbers, and of decode *)
(* on hand-written value lists                                             *)
(***************************************************************************)
\* a number of the given special kind ("nan" / "inf") somewhere in the tree
RECURSIVE HasSpecial(_, _)
HasSpecial(v, sp) ==
  IF v.t = "num" THEN v.n.sp = sp
  ELSE IF v.t = "arr" THEN \E i \in 1..Len(v.a) : HasSpecial(v.a[i], sp)
  ELSE IF v.t = "obj" THEN \E i \in 1..Len(v.m) : HasSpecial(v.m[i][2], sp)
  ELSE FALSE

\* C11: with the preserve flags false, compress fails with the
\* unsupported-value panic, returning no (values, root), exactly when
\* error_on_nan is set and the tree holds a NaN or error_on_infinite is set
\* and the tree holds an infinity; with the error flag false the same tree
\* never fails.
C11_ErrorFlags ==
  pc # "idle" /\ ~cfg.preserve_nan /\ ~cfg.preserve_infinite =>
    LET fails == \/ cfg.error_on_nan /\ HasSpecial(arg, "nan")
                 \/ cfg.error_on_infinite /\ HasSpecial(arg, "inf")
    IN /\ fails <=> pc = "panicked"
       /\ fails <=> ~ret.ok
       /\ pc = "panicked" => mem = make_memory /\ ret.key = <<>>

\* a NaN nested two levels down has made compress fail
C11_Witness ==
  /\ pc = "panicked"
  /\ cfg.error_on_nan /\ ~cfg.error_on_infinite
  /\ arg = Arr(<<Arr(<<NumV(NaN)>>), Arr(<<>>)>>)

\* C12: compress then decompress keeps the kind of every finite number: an
\* integer decodes as an integer and a float as a float; also a float whose
\* value is whole (42.0) and negative zero.
C12_NumberKind ==
  pc = "decoded" /\ cfg = CONFIG /\ arg.t = "num" /\ arg.n.sp = "fin" =>
    out.t = "num" /\ out.n.k = arg.n.k

\* C13: for every integer that the value type holds (any i64 and any u64,
\* also above 2^53), decompress(compress(n)) is an integer with the
\* identical value.
C13_IntegersExact ==
  pc = "decoded" /\ cfg = CONFIG /\ arg.t = "num" /\ arg.n.k = "i" =>
    out.t = "num" /\ NumEq(out.n, arg.n)

\* C14: for every value list (also the empty list and lists that hold
\* malformed entries), decode(values, "") and decode(values, "_") return
\* null and do not fail.
C14_NullKeys ==
  pc = "list_decoded" /\ arg.key \in {<<>>, <<"_">>} => out = Null

\* the placeholder key has been decoded against the empty list
C14_Witness ==
  /\ pc = "list_decoded"
  /\ arg.key = <<"_">>
  /\ arg.values = <<>>
  /\ out = Null

\* a key that is neither null nor a valid reference into the list: it holds
\* a character outside 0-9A-Za-z, or its radix-62 value is not less than
\* the length of the list
BadKey(values, key) ==
  /\ ~IsNullKey(key)
  /\ \/ \E i \in 1..Len(key) : Radix62Digit(key[i]) < 0
     \/ NumeralValue(key) >= Len(values)

\* the entry is an array or object entry with a bad key among its references
HasBadRef(values, entry) ==
  /\ StartsWith(entry, <<"a","|">>) \/ StartsWith(entry, <<"o","|">>)
  /\ entry \notin {<<"a","|">>, <<"o","|">>}
  /\ LET parts == Split(entry, "|")
     IN \E i \in 2..Len(parts) : BadKey(values, parts[i])

\* C15: for every value list and every key that is neither empty nor "_",
\* if the key holds a character outside 0-9A-Za-z or its radix-62 value is
\* not less than the length of the list, decode fails and returns no value:
\* called directly, and when the key is a reference of the array or object
\* entry that is decoded.
C15_InvalidKeysFail ==
  pc = "list_decoded" =>
    /\ (BadKey(arg.values, arg.key) => out.t = "panic")
    /\ (~IsNullKey(arg.key) /\ ~BadKey(arg.values, arg.key)
          /\ HasBadRef(arg.values, arg.values[NumeralValue(arg.key) + 1])
        => out.t = "panic")

\* the entry that a valid key refers to
ListEntry(key) == arg.values[NumeralValue(key) + 1]

GoodKey(key) == ~IsNullKey(key) /\ ~BadKey(arg.values, key)

SpecialEntries == {<<"N","|","+">>, <<"N","|","-">>, <<"N","|","0">>}

\* C16: decode of a key whose entry is exactly "N|+", "N|-" or "N|0"
\* returns null, also as an element of a decoded array; decode of a key
\* whose entry starts with "N|" and is none of the three fails.
C16_SpecialDecoding ==
  pc = "list_decoded" /\ GoodKey(arg.key) =>
    LET e == ListEntry(arg.key)
        parts == Split(e, "|")
    IN /\ (e \in SpecialEntries => out = Null)
       /\ (StartsWith(e, <<"N","|">>) /\ e \notin SpecialEntries => out.t = "panic")
       /\ (StartsWith(e, <<"a","|">>) /\ Len(e) > 2 =>
             /\ \A i \in 2..Len(parts) :
                  GoodKey(parts[i]) /\ ListEntry(parts[i]) \in SpecialEntries
                    /\ out.t = "arr"
                  => out.a[i - 1] = Null
             /\ (Len(parts) = 2 /\ GoodKey(parts[2]) =>
                   /\ (ListEntry(parts[2]) \in SpecialEntries => out = Arr(<<Null>>))
                   /\ (StartsWith(ListEntry(parts[2]), <<"N","|">>)
                         /\ ListEntry(parts[2]) \notin SpecialEntries
                       => out.t = "panic")))

\* an array whose only element refers to "N|-" has been decoded
C16_Witness ==
  /\ pc = "list_decoded"
  /\ arg.values = << <<"N","|","-">>, <<"a","|","0">> >>
  /\ arg.key = <<"1">>
  /\ out = Arr(<<Null>>)

\* C17: decode_bool(s) is false exactly when s is "b|F" or the empty text
\* and true for every other text; decode of an entry that starts with "b|"
\* returns true unless the entry is exactly "b|F", and never fails.
C17_BoolFallback ==
  /\ pc = "bools_decoded" =>
       /\ Len(ret) = Len(arg.values)
       /\ \A i \in 1..Len(arg.values) :
            ret[i] = (arg.values[i] \notin {<<"b","|","F">>, <<>>})
  /\ pc = "list_decoded" /\ GoodKey(arg.key)
       /\ StartsWith(ListEntry(arg.key), <<"b","|">>)
     => out = Bool(ListEntry(arg.key) # <<"b","|","F">>)

\* an entry with the boolean tag and an unknown letter has decoded to true
C17_Witness ==
  /\ pc = "list_decoded"
  /\ GoodKey(arg.key)
  /\ ListEntry(arg.key) = <<"b","|","x">>
  /\ out = Bool(TRUE)

\* a single string or an array whose elements are all strings
IsNameList(v) ==
  \/ v.t = "str"
  \/ v.t = "arr" /\ \A i \in 1..Len(v.a) : v.a[i].t = "str"

\* decode of a reference of the list, as decode_object calls it
DecodeRef(key) ==
  decode(cfg.overflow_checks, arg.values, key, Len(arg.values) + 1)

\* C18: decoding a non-empty object entry "o|<schema>|..." fails whenever
\* the schema reference decodes to something that is neither one string nor
\* an array of strings (null, a boolean, a number, an object, an array with
\* an element that is not a string); when it decodes to one string, the
\* object of an entry with one value reference has that one property name.
C18_ObjectSchema ==
  pc = "list_decoded" /\ GoodKey(arg.key)
    /\ StartsWith(ListEntry(arg.key), <<"o","|">>) /\ Len(ListEntry(arg.key)) > 2
  =>
    LET parts == Split(ListEntry(arg.key), "|")
        schema == DecodeRef(parts[2])
    IN /\ (schema.t # "panic" /\ ~IsNameList(schema) => out.t = "panic")
       /\ (schema.t = "str" /\ Len(parts) = 3 /\ DecodeRef(parts[3]).t # "panic"
           => out = Obj(<< <<schema.s, DecodeRef(parts[3])>> >>))

\* an object entry whose schema reference is a single string has decoded to
\* an object with that one name
C18_Witness ==
  /\ pc = "list_decoded"
  /\ arg.values = << <<"x">>, <<"a","|">>, <<"o","|","0","|","1">> >>
  /\ arg.key = <<"2">>
  /\ out = Obj(<< <<TX, Arr(<<>>)>> >>)

(***************************************************************************)
(* Properties of the helpers                                               *)
(***************************************************************************)
\* the positions of the map whose value is not null
NonNullAt(m) == {i \in 1..Len(m) : m[i][2].t # "null"}

\* C19: after trim_undefined the map holds exactly the properties of the
\* original map whose value was not null, each with its value unchanged
\* (nested maps and arrays, and the nulls inside them, are untouched); a map
\* with no null-valued property is left unchanged.
C19_TrimShallow ==
  pc = "trimmed" =>
    /\ \A i \in NonNullAt(arg) : \E j \in 1..Len(out) : out[j] = arg[i]
    /\ \A j \in 1..Len(out) : \E i \in NonNullAt(arg) : out[j] = arg[i]
    /\ Len(out) = Cardinality(NonNullAt(arg))
    /\ (NonNullAt(arg) = 1..Len(arg) => out = arg)

\* a null-valued property has been removed next to a nested map that keeps
\* its own null-valued property
C19_Witness ==
  /\ pc = "trimmed"
  /\ arg = << <<TA, Null>>, <<TB, Obj(<< <<TA, Null>>, <<TB, ArrNulls>> >>)>> >>
  /\ out = << <<TB, Obj(<< <<TA, Null>>, <<TB, ArrNulls>> >>)>> >>

\* the map with the null-valued properties removed at every level that is
\* reached through map-valued properties only
RECURSIVE TrimmedEverywhere(_)
TrimmedEverywhere(m) ==
  IF Len(m) = 0 THEN <<>>
  ELSE IF m[1][2].t = "null" THEN TrimmedEverywhere(Tail(m))
  ELSE IF m[1][2].t = "obj"
    THEN << <<m[1][1], Obj(TrimmedEverywhere(m[1][2].m))>> >> \o TrimmedEverywhere(Tail(m))
  ELSE <<m[1]>> \o TrimmedEverywhere(Tail(m))

\* C20: after trim_undefined_recursively no map reached from the argument
\* through map-valued properties (any number of levels, every map-valued
\* property of a map that has several) has a null-valued property; arrays
\* and what is inside them, and all other non-null values, are unchanged.
C20_TrimRecursive ==
  pc = "trimmed_recursively" => ValEq(Obj(out), Obj(TrimmedEverywhere(arg)))

(***************************************************************************)
(* Properties of the Store                                                 *)
(***************************************************************************)
\* C21: in every state reached from make_memory by add_value calls,
\* key_count equals the length of the value list, the keys of the value
\* cache are exactly the entries of the list, and the value cache maps the
\* entry at index i to int_to_s(i); so the entries are pairwise distinct.
C21_StoreConsistent ==
  /\ mem.key_count = Len(mem.store)
  /\ DOMAIN mem.value_cache = {mem.store[i] : i \in 1..Len(mem.store)}
  /\ \A i \in 1..Len(mem.store) : mem.value_cache[mem.store[i]] = int_to_s(i - 1)
  /\ \A i, j \in 1..Len(mem.store) : mem.store[i] = mem.store[j] => i = j

\* two calls, the second with an object, have built a Store of five or
\* more entries
C21_Witness ==
  /\ pc = "added" /\ calls = 2
  /\ arg.t = "obj"
  /\ Len(mem.store) >= 5
  /\ Len(pre.store) >= 1

\* every mapping of the cache before is a mapping of the cache after
CacheKept(before, after) ==
  \A k \in DOMAIN before : k \in DOMAIN after /\ after[k] = before[k]

\* C22: for every add_value call, calls that fail part-way included, the
\* value list before the call is a prefix of the list after it, the counter
\* does not decrease, and no mapping of the value cache or of the schema
\* cache is removed or changed.
C22_AppendOnly ==
  calls >= 1 =>
    /\ Len(pre.store) <= Len(mem.store)
    /\ SubSeq(mem.store, 1, Len(pre.store)) = pre.store
    /\ pre.key_count <= mem.key_count
    /\ CacheKept(pre.value_cache, mem.value_cache)
    /\ CacheKept(pre.schema_cache, mem.schema_cache)

\* a call on a Store with entries has failed after it appended entries
C22_Witness ==
  /\ pc = "panicked" /\ calls = 2
  /\ Len(pre.store) >= 1
  /\ Len(mem.store) > Len(pre.store)
  /\ DOMAIN pre.schema_cache # {}

\* the references of an array or object entry, in order (none for the rest)
EntryRefs(entry) ==
  IF (StartsWith(entry, <<"a","|">>) \/ StartsWith(entry, <<"o","|">>))
       /\ Len(entry) > 2
  THEN LET parts == Split(entry, "|") IN SubSeq(parts, 2, Len(parts))
  ELSE <<>>

\* the key is a radix-62 key of an index of the list
IsIndexKey(store, key) ==
  /\ Len(key) >= 1
  /\ \A k \in 1..Len(key) : Radix62Digit(key[k]) \in 0..61
  /\ NumeralValue(key) < Len(store)

ValidKey(store, key) ==
  key = <<>> \/ key = <<"_">> \/ IsIndexKey(store, key)

\* C23: every key that add_value returns, every key held in the value cache
\* or the schema cache, and every reference inside an array or object entry
\* is the empty key, "_", or a radix-62 key whose index is less than the
\* length of the value list.
C23_NoDanglingKeys ==
  /\ (calls >= 1 /\ ret.ok => ValidKey(mem.store, ret.key))
  /\ \A v \in DOMAIN mem.value_cache : ValidKey(mem.store, mem.value_cache[v])
  /\ \A n \in DOMAIN mem.schema_cache : ValidKey(mem.store, mem.schema_cache[n])
  /\ \A i \in 1..Len(mem.store) :
       LET refs == EntryRefs(mem.store[i])
       IN \A k \in 1..Len(refs) : ValidKey(mem.store, refs[k])

\* an array was added after an object: index keys were returned and are
\* held in both caches and inside entries
C23_Witness ==
  /\ pc = "added" /\ calls = 2
  /\ arg.t = "arr" /\ IsIndexKey(mem.store, ret.key)
  /\ DOMAIN mem.schema_cache # {}
  /\ \E i \in 1..Len(mem.store) :
       Len(EntryRefs(mem.store[i])) >= 2
         /\ IsIndexKey(mem.store, EntryRefs(mem.store[i])[2])

\* the names of the map, as a set
NameSet(m) == {m[i][1] : i \in 1..Len(m)}

\* C24: for every non-empty object, with sort_key false and true and for
\* every iteration order of its properties, the object's entry is "o|" and
\* the schema key followed by exactly one reference per property, and the
\* i-th reference is the key of the value of the property that the i-th
\* name of the stored schema entry names.
C24_PositionalValues ==
  pc \in {"added", "again"} /\ arg.t = "obj" /\ Len(arg.m) >= 1 =>
    LET parts == Split(EntryAt(ret.key), "|")
        schema == decode(cfg.overflow_checks, mem.store, parts[2],
                         Len(mem.store) + 1)
    IN /\ Len(parts) = Len(arg.m) + 2
       /\ parts[1] = <<"o">>
       /\ schema.t = "arr"
       /\ Len(schema.a) = Len(arg.m)
       /\ \A i \in 1..Len(arg.m) :
            /\ schema.a[i].t = "str"
            /\ schema.a[i].s \in NameSet(arg.m)
            /\ parts[i + 2] =
                 add_value(cfg, mem, MapGet(arg.m, schema.a[i].s)).key

(***************************************************************************)
(* The cycle guard of trim_undefined_recursively                           *)
(***************************************************************************)
SeqSet(s) == {s[i] : i \in 1..Len(s)}

\* C25: whenever the cycle guard is consulted, the tracked set holds exactly
\* the maps on the active recursion path (a map's identity is added when
\* it is entered and is no longer tracked after its visit has returned), so
\* a map is skipped only if it is one of its own ancestors.
C25_TracksActivePath ==
  pc = "trimmed_recursively" =>
    \A i \in 1..Len(ret) :
      /\ SeqSet(ret[i].tracks) = SeqSet(ret[i].path)
      /\ (ret[i].skipped => ret[i].ptr \in SeqSet(ret[i].path))

(***************************************************************************)
(* Schemas, references and reachability in the output of compress          *)
(***************************************************************************)
\* the canonical name list of a map under the configuration
Canonical(c, m) == IF c.sort_key THEN Sort(MapKeys(m)) ELSE MapKeys(m)

\* the schema reference of the entry of the i-th element of the array that
\* was compressed
ElementSchemaKey(i) ==
  Split(EntryAt(EntryRefs(EntryAt(ret.key))[i]), "|")[2]

IsObjectArray(v) ==
  /\ v.t = "arr" /\ Len(v.a) >= 1
  /\ \A i \in 1..Len(v.a) : v.a[i].t = "obj" /\ Len(v.a[i].m) >= 1

\* C26: two objects get the same schema key only if their canonicalized
\* name lists are equal element by element (an object with the one
\* property "a,b" and an object with the properties a and b get different
\* schema entries), and the entry a schema key refers to is an array entry,
\* never the plain string of the joined names.
C26_SchemasDistinct ==
  pc \in {"compressed", "decoded"} /\ IsObjectArray(arg) =>
    /\ \A i, j \in 1..Len(arg.a) :
         ElementSchemaKey(i) = ElementSchemaKey(j)
           => Canonical(cfg, arg.a[i].m) = Canonical(cfg, arg.a[j].m)
    /\ \A i \in 1..Len(arg.a) :
         StartsWith(EntryAt(ElementSchemaKey(i)), <<"a","|">>)

\* the reference names an entry (it is neither empty nor "_")
IsRef(key) == key # <<>> /\ key # <<"_">>

\* C27: for every array or object entry at index i of the value list, each
\* reference in it that is neither empty nor "_" decodes to an index
\* strictly less than i.
C27_BackwardReferences ==
  \A i \in 1..Len(mem.store) :
    LET refs == EntryRefs(mem.store[i])
    IN \A k \in 1..Len(refs) :
         IsRef(refs[k]) =>
           /\ \A n \in 1..Len(refs[k]) : Radix62Digit(refs[k][n]) \in 0..61
           /\ NumeralValue(refs[k]) < i - 1

\* the last entry is an object entry with a schema reference and a value
\* reference, after an earlier call left entries in the list
C27_Witness ==
  /\ pc = "added" /\ calls = 2 /\ arg.t = "obj"
  /\ Len(pre.store) >= 2
  /\ Len(mem.store) > Len(pre.store)
  /\ LET refs == EntryRefs(mem.store[Len(mem.store)])
     IN Len(refs) >= 2 /\ IsRef(refs[1]) /\ IsRef(refs[2])

\* C28: for every finite input tree on which compress succeeds, decoding
\* the output of compress terminates and does not fail: decompress returns
\* a value (no panic, no exhausted stack).
C28_DecodeTerminates ==
  pc = "decoded" => out.t # "panic"

\* the 1-based positions that the entries at the positions of from refer to
RefPositions(from) ==
  UNION {{KeyPos(EntryRefs(mem.store[i])[k]) :
            k \in 1..Len(EntryRefs(mem.store[i]))} : i \in from} \ {0}

\* the positions reachable from the positions of from (n steps at most)
RECURSIVE ReachFrom(_, _)
ReachFrom(from, n) ==
  IF n = 0 \/ RefPositions(from) \subseteq from THEN from
  ELSE ReachFrom(from \cup RefPositions(from), n - 1)

\* C29: for every input for which compress returns a non-empty root, the
\* root is int_to_s(len(values) - 1) and every entry of the value list is
\* reachable from the root through the references; for the input null the
\* value list is empty and the root is the empty key.
C29_NoGarbageRootLast ==
  pc \in {"compressed", "decoded"} =>
    /\ (ret.key # <<>> =>
          /\ Len(mem.store) >= 1
          /\ ret.key = int_to_s(Len(mem.store) - 1)
          /\ ReachFrom({Len(mem.store)}, Len(mem.store)) = 1..Len(mem.store))
    /\ (arg = Null => mem.store = <<>> /\ ret.key = <<>>)

\* an array of two objects of two properties was compressed into a list of
\* seven or more entries
C29_Witness ==
  /\ pc = "compressed"
  /\ IsObjectArray(arg) /\ Len(arg.a) = 2 /\ Len(arg.a[1].m) = 2
  /\ ret.key # <<>>
  /\ Len(mem.store) >= 7

(***************************************************************************)
(* Strings against the type tags                                           *)
(***************************************************************************)
TypeTags == {<<"b","|">>, <<"o","|">>, <<"n","|">>, <<"N","|">>, <<"a","|">>}

\* C30: for every string s, encode_str(s) starts with none of "b|", "o|",
\* "n|", "N|", "a|", so decode of the key whose entry was interned for the
\* string s takes the string branch and returns exactly s.
C30_StringsStayStrings ==
  /\ (pc # "idle" => \A tag \in TypeTags : ~StartsWith(ret, tag))
  /\ (pc = "interned_decoded" =>
        /\ mem.store = <<ret>>
        /\ ret0 = <<"0">>
        /\ out = Str(arg))

\* a string that starts with a type tag was interned and decoded
C30_Witness ==
  /\ pc = "interned_decoded"
  /\ \E tag \in TypeTags : StartsWith(arg, tag)
  /\ Len(arg) = MaxStrLen
  /\ ret = <<"s","|">> \o arg
  /\ out.t = "str"

====
